---- MODULE Spec2Model ----
(***************************************************************************)
(* Quest Log: recurrence templates, instance generation, status updates.   *)
(*                                                                         *)
(* The store (quests, quest_templates, quest_history, user_progression)    *)
(* is the state; every router handler is one action.  Row ids are the      *)
(* positions in the table sequences (autoincrement from 1), a null id or   *)
(* month is 0 (the code itself writes `x || null`), a null date is the     *)
(* empty sequence and a set date is <<day>>.  A constraint column of a      *)
(* template (JSON text) is the list it spells; the columns whose text does *)
(* not parse are named in the row's field unparseable.                     *)
(*                                                                         *)
(* Time is the calendar day, counted from 2024-01-01 (day 0, a Monday).    *)
(* The server process runs with the image's default time zone (UTC, see    *)
(* src/Dockerfile: node:20-slim, no TZ), so the local getters of Date and  *)
(* the date part of toISOString() name the same day.                       *)
(***************************************************************************)
EXTENDS Integers, Sequences, FiniteSets, TLC

VARIABLES now, steps, templates, quests, history, progression, reply, passes

vars == <<now, steps, templates, quests, history, progression, reply, passes>>

\* ------------------------------------------------------------------------
\* Bounds of the model
\* ------------------------------------------------------------------------
\* Handler calls and day changes in one run; the tables hold at most one row
\* per call.
MaxOps == 5

Users == {1}

\* The accounts with a progression row; the runs with two callers draw the
\* caller from them.
Accounts == {1, 2}

\* The requests the server can have in flight at once in the runs with
\* overlapping generation passes.
Workers == {1, 2}

\* ------------------------------------------------------------------------
\* Calendar (JavaScript Date getters on the day count)
\* ------------------------------------------------------------------------
IsLeap(y) == (y % 4 = 0 /\ y % 100 # 0) \/ y % 400 = 0

DaysInMonth(y, m) ==
  IF m = 2 THEN (IF IsLeap(y) THEN 29 ELSE 28)
  ELSE IF m \in {4, 6, 9, 11} THEN 30 ELSE 31

RECURSIVE ToYMD(_, _, _, _)
ToYMD(y, m, r, yd) ==
  IF r >= DaysInMonth(y, m)
  THEN IF m = 12 THEN ToYMD(y + 1, 1, r - DaysInMonth(y, m), 0)
       ELSE ToYMD(y, m + 1, r - DaysInMonth(y, m), yd + DaysInMonth(y, m))
  ELSE [year |-> y, month |-> m, date |-> r + 1, yday |-> yd + r]

\* Year, month, date and day of the year of day d; day 0 is 2024-01-01.
DateOf(d) == ToYMD(2024, 1, d, 0)

\* now.getDay(): 0 = Sunday .. 6 = Saturday
getDay(d) == (d + 1) % 7
\* now.getDate(): 1..31
getDate(d) == DateOf(d).date
\* now.getMonth() + 1: 1..12
getMonth(d) == DateOf(d).month
\* Math.ceil(currentDate / 7)
WeekOfMonth(d) == (getDate(d) + 6) \div 7

\* ------------------------------------------------------------------------
\* Values
\* ------------------------------------------------------------------------
OpenStatuses == {"unreceived", "accepted", "challenging", "almost"}
TerminalStatuses == {"cleared", "paused", "cancelled", "failed"}
Statuses == OpenStatuses \cup TerminalStatuses

PlainName(base) == [base |-> base, k |-> 0, n |-> 0]

InitProgression ==
  [totalXp |-> 0, currentStreak |-> 0, longestStreak |-> 0, lastClearedDate |-> <<>>]

\* ------------------------------------------------------------------------
\* Pure helpers of the data layer
\* ------------------------------------------------------------------------

\* Mutant: every difficulty pays the lowest reward.
calculateXpRewardFlat(difficulty) == 10

\* calculateXpReward(difficulty)
calculateXpReward(difficulty) ==
  CASE difficulty = "1" -> 10
    [] difficulty = "2" -> 25
    [] difficulty = "3" -> 50
    [] OTHER -> 10

\* template.frequency || 1
Freq(t) == IF t.frequency = 0 THEN 1 ELSE t.frequency

\* The open-instance list a generation pass reads once, before its loop.
ActiveQuestIds(u) ==
  {i \in 1..Len(quests) : quests[i].userId = u /\ quests[i].status \in OpenStatuses}

\* Mutant: the template query forgets the isActive condition.
ActiveTemplateIdsAnyState(u) ==
  {i \in 1..Len(templates) : templates[i].userId = u}

\* The rows of the pass's template query: the user's active templates.
ActiveTemplateIds(u) ==
  {i \in 1..Len(templates) : templates[i].userId = u /\ templates[i].isActive}

\* Mutant: the weekday is counted from Monday = 0.
IsTodayValidMondayFirst(t, d) ==
  CASE t.questType = "Daily" -> TRUE
    [] t.questType = "Weekly" ->
         IF t.daysOfWeek = {} THEN FALSE ELSE ((getDay(d) + 6) % 7) \in t.daysOfWeek
    [] t.questType = "Yearly" ->
         /\ t.monthOfYear = getMonth(d)
         /\ (t.weeksOfMonth = {} \/ WeekOfMonth(d) \in t.weeksOfMonth)
         /\ (t.daysOfWeek = {} \/ ((getDay(d) + 6) % 7) \in t.daysOfWeek)
    [] OTHER -> FALSE

\* Mutant: monthOfYear is compared with the 0-based getMonth().
IsTodayValidZeroBasedMonth(t, d) ==
  CASE t.questType = "Daily" -> TRUE
    [] t.questType = "Weekly" ->
         IF t.daysOfWeek = {} THEN FALSE ELSE getDay(d) \in t.daysOfWeek
    [] t.questType = "Yearly" ->
         /\ t.monthOfYear = getMonth(d) - 1
         /\ (t.weeksOfMonth = {} \/ WeekOfMonth(d) \in t.weeksOfMonth)
         /\ (t.daysOfWeek = {} \/ getDay(d) \in t.daysOfWeek)
    [] OTHER -> FALSE

\* Mutant: a Weekly template without days is valid every day.
IsTodayValidPoolFires(t, d) ==
  CASE t.questType = "Daily" -> TRUE
    [] t.questType = "Weekly" ->
         t.daysOfWeek = {} \/ getDay(d) \in t.daysOfWeek
    [] t.questType = "Yearly" ->
         /\ t.monthOfYear = getMonth(d)
         /\ (t.weeksOfMonth = {} \/ WeekOfMonth(d) \in t.weeksOfMonth)
         /\ (t.daysOfWeek = {} \/ getDay(d) \in t.daysOfWeek)
    [] OTHER -> FALSE

\* Mutant: the switch has a Project case that checks the date range.
IsTodayValidWithProject(t, d) ==
  CASE t.questType = "Daily" -> TRUE
    [] t.questType = "Weekly" ->
         IF t.daysOfWeek = {} THEN FALSE ELSE getDay(d) \in t.daysOfWeek
    [] t.questType = "Yearly" ->
         /\ t.monthOfYear = getMonth(d)
         /\ (t.weeksOfMonth = {} \/ WeekOfMonth(d) \in t.weeksOfMonth)
         /\ (t.daysOfWeek = {} \/ getDay(d) \in t.daysOfWeek)
    [] t.questType = "Project" ->
         /\ t.startDate # <<>> /\ t.endDate # <<>>
         /\ t.startDate[1] <= d /\ d <= t.endDate[1]
         /\ (t.daysOfWeek = {} \/ getDay(d) \in t.daysOfWeek)
    [] OTHER -> FALSE

\* "1. Is Today Valid?": the switch on template.questType.  The statements
\* after the Weekly case's break carry no case label, so control never
\* reaches them; Monthly, Project and Relax match no case and leave
\* isTodayValid false.
IsTodayValid(t, d) ==
  CASE t.questType = "Daily" -> TRUE
    [] t.questType = "Weekly" ->
         IF t.daysOfWeek = {} THEN FALSE ELSE getDay(d) \in t.daysOfWeek
    [] t.questType = "Yearly" ->
         /\ t.monthOfYear = getMonth(d)
         /\ (t.weeksOfMonth = {} \/ WeekOfMonth(d) \in t.weeksOfMonth)
         /\ (t.daysOfWeek = {} \/ getDay(d) \in t.daysOfWeek)
    [] OTHER -> FALSE

\* The kinds countCompletions queries the history for, and the first day of
\* their counting window; for Daily and every other kind the helper returns
\* 0 before it queries anything.
HasPeriod(type) == type \in {"Weekly", "Monthly", "Yearly"}

\* Mutant: the week is counted from Monday.
PeriodStartMondayWeek(type, d) ==
  CASE type = "Weekly" -> d - ((getDay(d) + 6) % 7)
    [] type = "Monthly" -> d - (getDate(d) - 1)
    [] type = "Yearly" -> d - DateOf(d).yday

PeriodStart(type, d) ==
  CASE type = "Weekly" -> d - getDay(d)
    [] type = "Monthly" -> d - (getDate(d) - 1)
    [] type = "Yearly" -> d - DateOf(d).yday

\* Mutant: the name fallback also takes rows that carry another template's
\* id.
CountsForAnyNamesake(h, tid, type, d) ==
  /\ h.questType = type
  /\ \/ h.templateId = tid
     \/ /\ h.questName.base # ""
        /\ tid \in 1..Len(templates)
        /\ templates[tid].isActive
        /\ h.questName = PlainName(templates[tid].questName)
  /\ h.recordedAt >= PeriodStart(type, d)
  /\ h.finalStatus = "cleared"

\* The WHERE clause of countCompletions for one history row.
CountsFor(h, tid, type, d) ==
  /\ h.questType = type
  /\ \/ h.templateId = tid
     \/ /\ h.templateId = 0
        /\ h.questName.base # ""
        /\ tid \in 1..Len(templates)
        /\ templates[tid].isActive
        /\ h.questName = PlainName(templates[tid].questName)
  /\ h.recordedAt >= PeriodStart(type, d)
  /\ h.finalStatus = "cleared"

\* countCompletions(templateId, type)
countCompletions(tid, type, d) ==
  IF HasPeriod(type)
  THEN Cardinality({i \in 1..Len(history) : CountsFor(history[i], tid, type, d)})
  ELSE 0

\* getTemplateCompletionCount(templateId, questType): the same windows for
\* Weekly, Monthly and Yearly, today for every other kind, and rows matched
\* by templateId alone.
getTemplateCompletionCount(tid, type, d) ==
  LET start == IF HasPeriod(type) THEN PeriodStart(type, d) ELSE d
  IN Cardinality({i \in 1..Len(history) :
                    /\ history[i].questType = type
                    /\ history[i].templateId = tid
                    /\ history[i].recordedAt >= start
                    /\ history[i].finalStatus = "cleared"})

\* Mutant: a Weekly deadline always moves forward, a Sunday's to the next
\* Sunday.
calculateAutoDeadlineNextWeek(type, d) ==
  CASE type = "Daily" -> <<d>>
    [] type = "Weekly" -> <<d + (7 - getDay(d))>>
    [] type = "Monthly" ->
         <<d + (DaysInMonth(DateOf(d).year, DateOf(d).month) - getDate(d))>>
    [] type = "Yearly" ->
         <<d - DateOf(d).yday + (IF IsLeap(DateOf(d).year) THEN 365 ELSE 364)>>
    [] OTHER -> <<>>

\* calculateAutoDeadline(questType): the day whose 23:59:59.999 is the deadline
calculateAutoDeadline(type, d) ==
  CASE type = "Daily" -> <<d>>
    [] type = "Weekly" -> <<d + (IF getDay(d) = 0 THEN 0 ELSE 7 - getDay(d))>>
    [] type = "Monthly" ->
         <<d + (DaysInMonth(DateOf(d).year, DateOf(d).month) - getDate(d))>>
    [] type = "Yearly" ->
         <<d - DateOf(d).yday + (IF IsLeap(DateOf(d).year) THEN 365 ELSE 364)>>
    [] OTHER -> <<>>

\* The row createQuest inserts.  input.deadlineGiven stands for
\* `input.deadline !== undefined`; byGenerator is a history field marking the
\* rows generateQuestsFromTemplates created.
createQuest(u, input, d, byGen) ==
  [ userId |-> u,
    questName |-> input.questName,
    questType |-> input.questType,
    difficulty |-> IF input.difficulty = "" THEN "1" ELSE input.difficulty,
    status |-> IF input.status = "" THEN "unreceived" ELSE input.status,
    deadline |-> IF input.deadlineGiven THEN input.deadline
                 ELSE IF input.autoDeadline
                      THEN calculateAutoDeadline(input.questType, d)
                      ELSE <<>>,
    templateId |-> input.templateId,
    acceptedAt |-> IF input.status = "accepted" THEN <<d>> ELSE <<>>,
    clearedAt |-> <<>>,
    createdAt |-> d,
    updatedAt |-> d,
    byGenerator |-> byGen ]

\* The row createQuestTemplate inserts.
createQuestTemplate(u, input) ==
  [ userId |-> u,
    questName |-> input.questName,
    questType |-> input.questType,
    difficulty |-> IF input.difficulty = "" THEN "1" ELSE input.difficulty,
    frequency |-> IF input.frequency = 0 THEN 1 ELSE input.frequency,
    daysOfWeek |-> input.daysOfWeek,
    weeksOfMonth |-> input.weeksOfMonth,
    datesOfMonth |-> input.datesOfMonth,
    monthOfYear |-> input.monthOfYear,
    startDate |-> input.startDate,
    endDate |-> input.endDate,
    isActive |-> TRUE,
    lastGeneratedAt |-> <<>>,
    unparseable |-> {} ]

\* Mutant: the history row loses the template link.
addToHistoryUnlinked(u, questId, quest, finalStatus, xp, d) ==
  [ userId |-> u,
    questId |-> questId,
    questName |-> quest.questName,
    questType |-> quest.questType,
    difficulty |-> quest.difficulty,
    finalStatus |-> finalStatus,
    xpEarned |-> xp,
    recordedAt |-> d,
    templateId |-> 0 ]

\* Mutant: the record does not carry the reward.
addToHistoryNoXp(u, questId, quest, finalStatus, xp, d) ==
  [ userId |-> u,
    questId |-> questId,
    questName |-> quest.questName,
    questType |-> quest.questType,
    difficulty |-> quest.difficulty,
    finalStatus |-> finalStatus,
    xpEarned |-> 0,
    recordedAt |-> d,
    templateId |-> quest.templateId ]

\* The row addToHistory inserts (recordedAt defaults to the insert time).
addToHistory(u, questId, quest, finalStatus, xp, d) ==
  [ userId |-> u,
    questId |-> questId,
    questName |-> quest.questName,
    questType |-> quest.questType,
    difficulty |-> quest.difficulty,
    finalStatus |-> finalStatus,
    xpEarned |-> xp,
    recordedAt |-> d,
    templateId |-> quest.templateId ]

\* Mutant: a clear after a gap continues the streak instead of restarting it.
updateUserProgressionNoBreak(p, xpGain, questCleared, d) ==
  LET counted == questCleared /\ p.lastClearedDate # <<d>>
      newStreak == IF counted THEN p.currentStreak + 1 ELSE p.currentStreak
  IN [ totalXp |-> p.totalXp + xpGain,
       currentStreak |-> newStreak,
       longestStreak |-> IF counted /\ newStreak > p.longestStreak
                         THEN newStreak ELSE p.longestStreak,
       lastClearedDate |-> IF counted THEN <<d>> ELSE p.lastClearedDate ]

\* Mutant: the record streak is never raised.
updateUserProgressionStaleRecord(p, xpGain, questCleared, d) ==
  LET streak ==
        IF p.lastClearedDate = <<d - 1>> THEN p.currentStreak + 1 ELSE 1
      counted == questCleared /\ p.lastClearedDate # <<d>>
  IN [ totalXp |-> p.totalXp + xpGain,
       currentStreak |-> IF counted THEN streak ELSE p.currentStreak,
       longestStreak |-> p.longestStreak,
       lastClearedDate |-> IF counted THEN <<d>> ELSE p.lastClearedDate ]

\* updateUserProgression(userId, {xpGain, questCleared}) on the user's row
updateUserProgression(p, xpGain, questCleared, d) ==
  LET streak ==
        IF p.lastClearedDate = <<d - 1>> THEN p.currentStreak + 1 ELSE 1
      counted == questCleared /\ p.lastClearedDate # <<d>>
      newStreak == IF counted THEN streak ELSE p.currentStreak
  IN [ totalXp |-> p.totalXp + xpGain,
       currentStreak |-> newStreak,
       longestStreak |-> IF counted /\ newStreak > p.longestStreak
                         THEN newStreak ELSE p.longestStreak,
       lastClearedDate |-> IF counted THEN <<d>> ELSE p.lastClearedDate ]

\* Mutant: the idle check also resets a streak whose last clear was
\* yesterday.
resetStreakIfNeededEager(p, d) ==
  IF p.lastClearedDate = <<>> THEN p
  ELSE IF p.lastClearedDate # <<d>>
       THEN [p EXCEPT !.currentStreak = 0]
       ELSE p

\* Mutant: the idle check wipes the record streak together with the current
\* one.
resetStreakIfNeededWipesRecord(p, d) ==
  IF p.lastClearedDate = <<>> THEN p
  ELSE IF p.lastClearedDate # <<d>> /\ p.lastClearedDate # <<d - 1>>
       THEN [p EXCEPT !.currentStreak = 0, !.longestStreak = 0]
       ELSE p

\* Mutant: the idle check compares with yesterday only, so it also zeroes a
\* streak that was extended today.
resetStreakIfNeededForgetsToday(p, d) ==
  IF p.lastClearedDate = <<>> THEN p
  ELSE IF p.lastClearedDate # <<d - 1>>
       THEN [p EXCEPT !.currentStreak = 0]
       ELSE p

\* resetStreakIfNeeded(userId) on the user's row
resetStreakIfNeeded(p, d) ==
  IF p.lastClearedDate = <<>> THEN p
  ELSE IF p.lastClearedDate # <<d>> /\ p.lastClearedDate # <<d - 1>>
       THEN [p EXCEPT !.currentStreak = 0]
       ELSE p

\* ------------------------------------------------------------------------
\* generateQuestsFromTemplates
\* ------------------------------------------------------------------------

\* Mutant: the duplicate check is skipped.
ExistingQuestUnchecked(u, tid) == FALSE

\* Mutant: the duplicate check looks at the unreceived instances only.
ExistingQuestUnreceivedOnly(u, tid) ==
  \E q \in ActiveQuestIds(u) :
    quests[q].templateId = tid /\ quests[q].status = "unreceived"

\* Mutant: a list that does not parse is salvaged instead of dropped.
parseJsonSalvaging(t, column) == t[column]

\* parseJson(str) on a constraint column of a template row: [] when the text
\* is null or JSON.parse throws, else the parsed list.
parseJson(t, column) == IF column \in t.unparseable THEN {} ELSE t[column]

\* days, dates and weeks as the loop body parses them before its switch.
Parsed(t) ==
  [t EXCEPT !.daysOfWeek = parseJson(t, "daysOfWeek"),
            !.datesOfMonth = parseJson(t, "datesOfMonth"),
            !.weeksOfMonth = parseJson(t, "weeksOfMonth")]

\* "2. Already Active?": an open instance of the template in the list read
\* before the loop.
ExistingQuest(u, tid) ==
  \E q \in ActiveQuestIds(u) : quests[q].templateId = tid

\* The loop body's decision for one template row: steps 1 to 3.
ShouldGenerate(u, tid) ==
  /\ IsTodayValid(Parsed(templates[tid]), now)
  /\ ~ExistingQuest(u, tid)
  /\ countCompletions(tid, templates[tid].questType, now) < Freq(templates[tid])

\* "4. Generate Name with Progress"
GeneratedName(tid) ==
  LET t == templates[tid]
      currentCount == countCompletions(tid, t.questType, now)
  IN IF Freq(t) > 1
     THEN [base |-> t.questName, k |-> currentCount + 1, n |-> Freq(t)]
     ELSE PlainName(t.questName)

\* "5. Generate": the createQuest call of the loop body
GeneratedQuest(u, tid) ==
  createQuest(u,
    [ questName |-> GeneratedName(tid),
      questType |-> templates[tid].questType,
      difficulty |-> templates[tid].difficulty,
      templateId |-> tid,
      status |-> "",
      deadlineGiven |-> FALSE,
      deadline |-> <<>>,
      autoDeadline |-> TRUE ],
    now, TRUE)

\* The template ids the loop generates for, in row order.
RECURSIVE GenerationOrder(_, _)
GenerationOrder(u, from) ==
  IF from > Len(templates) THEN <<>>
  ELSE IF from \in ActiveTemplateIds(u) /\ ShouldGenerate(u, from)
       THEN <<from>> \o GenerationOrder(u, from + 1)
       ELSE GenerationOrder(u, from + 1)

\* ------------------------------------------------------------------------
\* Inputs the handlers are driven with
\* ------------------------------------------------------------------------
NoConstraint ==
  [ questName |-> "A", difficulty |-> "", frequency |-> 0,
    daysOfWeek |-> {}, weeksOfMonth |-> {}, datesOfMonth |-> {},
    monthOfYear |-> 0, startDate |-> <<>>, endDate |-> <<>> ]

Shape(type, f) == [NoConstraint EXCEPT !.frequency = f] @@ [questType |-> type]

WeeklyMonWed == [Shape("Weekly", 2) EXCEPT !.daysOfWeek = {1, 3}]
WeeklyPool == Shape("Weekly", 1)
MonthlyPool == Shape("Monthly", 1)

\* template.create inputs of the generation runs: a fixed-day and a pool
\* template of the kinds with a quota, and the kinds without a schedule
GenTemplateInputs ==
  { Shape("Daily", 0), Shape("Daily", 2), WeeklyMonWed, WeeklyPool, MonthlyPool,
    Shape("Relax", 1) }

\* template.create inputs of the evaluator runs: every constraint field of
\* every scheduled kind, set and unset
EvalTemplateInputs ==
  { WeeklyMonWed,
    WeeklyPool,
    [Shape("Monthly", 1) EXCEPT !.datesOfMonth = {1, 15}],
    [Shape("Monthly", 1) EXCEPT !.weeksOfMonth = {1}],
    [Shape("Monthly", 1) EXCEPT !.datesOfMonth = {1, 15}, !.weeksOfMonth = {2},
                                !.daysOfWeek = {3}],
    MonthlyPool,
    [Shape("Yearly", 1) EXCEPT !.monthOfYear = 1],
    [Shape("Yearly", 1) EXCEPT !.monthOfYear = 1, !.weeksOfMonth = {1},
                               !.daysOfWeek = {1, 2}],
    [Shape("Yearly", 1) EXCEPT !.monthOfYear = 12],
    Shape("Yearly", 1),
    [Shape("Project", 1) EXCEPT !.startDate = <<0>>, !.endDate = <<6>>],
    [Shape("Project", 1) EXCEPT !.startDate = <<0>>, !.endDate = <<20>>,
                                !.daysOfWeek = {1}] }

\* quest.create inputs: a manual Weekly one-off (templateId 0) or the pickup
\* of a template, which the pool view sends with the template's kind
QuestInputs ==
  { [ questName |-> PlainName("A"),
      questType |-> IF tid = 0 THEN "Weekly" ELSE templates[tid].questType,
      difficulty |-> "2",
      templateId |-> tid, status |-> "accepted", deadlineGiven |-> FALSE,
      deadline |-> <<>>, autoDeadline |-> TRUE ] : tid \in 0..Len(templates) }

\* quest.create inputs of the progression runs: a one-off of every difficulty
\* the form offers (and none), with and without a template id, with the
\* status left out or asked to be accepted
ManualQuestInputs ==
  { [ questName |-> PlainName("A"), questType |-> "Free", difficulty |-> df,
      templateId |-> tid, status |-> st, deadlineGiven |-> FALSE,
      deadline |-> <<>>, autoDeadline |-> TRUE ] :
      df \in {"", "1", "2", "3"}, tid \in {0, 1}, st \in {"", "accepted"} }

\* quest.create inputs of the deadline runs: every kind, with the deadline
\* left out, switched off, given as null and given as a date
QuestTypes == {"Daily", "Weekly", "Monthly", "Yearly", "Free", "Project", "Relax"}

DeadlineQuestInputs ==
  { [ questName |-> PlainName("A"), questType |-> type, difficulty |-> "",
      templateId |-> 0, status |-> "", deadlineGiven |-> dl.given,
      deadline |-> dl.deadline, autoDeadline |-> dl.auto ] :
      type \in QuestTypes,
      dl \in { [given |-> FALSE, deadline |-> <<>>, auto |-> TRUE],
               [given |-> FALSE, deadline |-> <<>>, auto |-> FALSE],
               [given |-> TRUE, deadline |-> <<>>, auto |-> TRUE],
               [given |-> TRUE, deadline |-> <<now + 3>>, auto |-> TRUE] } }

\* quest.updateDeadline inputs: the deadline removed, or set to the end of
\* the current day (the next day change passes it)
DeadlineInputs == {<<>>, <<now>>}

\* Rows with a damaged constraint column, by the list that is damaged
MalformedTemplateRows ==
  { [input |-> WeeklyMonWed, bad |-> {"daysOfWeek"}],
    [input |-> [Shape("Monthly", 1) EXCEPT !.datesOfMonth = {1, 15}],
     bad |-> {"datesOfMonth"}],
    [input |-> [Shape("Yearly", 1) EXCEPT !.monthOfYear = 1, !.daysOfWeek = {2}],
     bad |-> {"daysOfWeek"}],
    [input |-> [Shape("Yearly", 1) EXCEPT !.monthOfYear = 1, !.weeksOfMonth = {2}],
     bad |-> {"weeksOfMonth"}],
    [input |-> [Shape("Yearly", 1) EXCEPT !.monthOfYear = 2, !.daysOfWeek = {1},
                                          !.weeksOfMonth = {1}],
     bad |-> {"daysOfWeek", "weeksOfMonth"}] }

\* 2024-01-01 (Monday)
GenStartDays == {0}
\* 2024-01-01, 2024-01-06 (Saturday), 2024-01-07 (Sunday), 2024-01-31,
\* 2024-02-15 (Thursday), 2024-12-31
EvalStartDays == {0, 5, 6, 30, 45, 365}
\* 2024-01-01, 2024-01-06 (Saturday), 2024-02-28 (leap year), 2024-12-30,
\* 2025-02-27
DeadlineStartDays == {0, 5, 58, 364, 423}

\* ------------------------------------------------------------------------
\* State machine
\* ------------------------------------------------------------------------

\* A generation pass in flight keeps what it read before its loop: its
\* caller, the template ids of the caller's open instances (activeQuests),
\* the template rows still to visit, and the ids it has pushed to
\* generatedQuests; rowsAtRead is the size of the quests table when
\* activeQuests was read.  user 0 marks a request slot with no pass.
IdlePass == [user |-> 0, taken |-> {}, todo |-> <<>>, made |-> <<>>, rowsAtRead |-> 0]

\* What the last handler was called with and returned: its procedure, its
\* caller, for template.generate the ids of generatedQuests, for the quest
\* procedures the questId and status of the input, and for a clear the
\* xpEarned of the result (<<>> when the result carries none).  When the
\* handler threw, error is the template row it was working on and there is
\* no result.
Reply(name, u, ids) ==
  [ op |-> name, user |-> u, quests |-> ids,
    questId |-> 0, status |-> "", xpEarned |-> <<>>, error |-> 0 ]

InitOn(days) ==
  /\ now \in days
  /\ steps = 0
  /\ templates = <<>>
  /\ quests = <<>>
  /\ history = <<>>
  /\ progression = [u \in Accounts |-> InitProgression]
  /\ reply = Reply("none", 0, <<>>)
  /\ passes = [w \in Workers |-> IdlePass]

\* template.create
CreateTemplate(u, input) ==
  /\ steps < MaxOps
  /\ templates' = Append(templates, createQuestTemplate(u, input))
  /\ reply' = Reply("template.create", u, <<>>)
  /\ steps' = steps + 1
  /\ UNCHANGED passes
  /\ UNCHANGED <<now, quests, history, progression>>

\* template.toggleActive -> updateTemplateStatus
ToggleActive(u, tid, isActive) ==
  /\ steps < MaxOps
  /\ tid \in 1..Len(templates)
  /\ templates' = IF templates[tid].userId = u
                  THEN [templates EXCEPT ![tid].isActive = isActive]
                  ELSE templates
  /\ reply' = Reply("template.toggleActive", u, <<>>)
  /\ steps' = steps + 1
  /\ UNCHANGED passes
  /\ UNCHANGED <<now, quests, history, progression>>

\* template.generate -> generateQuestsFromTemplates
GenerateQuests(u) ==
  LET order == GenerationOrder(u, 1)
      rows == [k \in 1..Len(order) |-> GeneratedQuest(u, order[k])]
      made == {order[k] : k \in 1..Len(order)}
  IN /\ steps < MaxOps
     /\ quests' = quests \o rows
     /\ templates' = [i \in 1..Len(templates) |->
                        IF i \in made
                        THEN [templates[i] EXCEPT !.lastGeneratedAt = <<now>>]
                        ELSE templates[i]]
     /\ reply' = Reply("template.generate", u, [k \in 1..Len(order) |-> Len(quests) + k])
     /\ steps' = steps + 1
     /\ UNCHANGED passes
     /\ UNCHANGED <<now, history, progression>>

\* The template rows at which the loop body reaches a database call: the
\* count query of countCompletions (kinds with a period) or the insert of
\* createQuest.
ReachesStore(u, tid) ==
  /\ tid \in ActiveTemplateIds(u)
  /\ IsTodayValid(Parsed(templates[tid]), now)
  /\ ~ExistingQuest(u, tid)
  /\ HasPeriod(templates[tid].questType) \/ ShouldGenerate(u, tid)

\* template.generate when that call rejects for template row tid: the loop
\* has no try/catch, so the rows before tid are processed, the exception
\* leaves generateQuestsFromTemplates and the handler, and the rows after tid
\* are never looked at.
GenerateQuestsFailing(u, tid) ==
  LET order == SelectSeq(GenerationOrder(u, 1), LAMBDA t : t < tid)
      rows == [k \in 1..Len(order) |-> GeneratedQuest(u, order[k])]
      made == {order[k] : k \in 1..Len(order)}
  IN /\ steps < MaxOps
     /\ tid \in 1..Len(templates)
     /\ ReachesStore(u, tid)
     /\ quests' = quests \o rows
     /\ templates' = [i \in 1..Len(templates) |->
                        IF i \in made
                        THEN [templates[i] EXCEPT !.lastGeneratedAt = <<now>>]
                        ELSE templates[i]]
     /\ reply' = [Reply("template.generate threw", u, <<>>) EXCEPT !.error = tid]
     /\ steps' = steps + 1
     /\ UNCHANGED passes
     /\ UNCHANGED <<now, history, progression>>

\* A template row that reached the table outside createQuestTemplate and
\* updateQuestTemplate (an import, a hand edit): the text of the columns in
\* bad is cut short, so JSON.parse throws on it.
StoreTemplateRow(u, input, bad) ==
  /\ steps < MaxOps
  /\ bad # {}
  /\ templates' =
       Append(templates, [createQuestTemplate(u, input) EXCEPT !.unparseable = bad])
  /\ reply' = Reply("none", 0, <<>>)
  /\ steps' = steps + 1
  /\ UNCHANGED passes
  /\ UNCHANGED <<now, quests, history, progression>>

\* The caller's active template ids in row order.
RECURSIVE TemplateRows(_, _)
TemplateRows(u, from) ==
  IF from > Len(templates) THEN <<>>
  ELSE IF from \in ActiveTemplateIds(u)
       THEN <<from>> \o TemplateRows(u, from + 1)
       ELSE TemplateRows(u, from + 1)

\* template.generate, first part: the two reads before the loop.  With no
\* active template the loop is empty and the pass returns at once.
BeginPass(w, u) ==
  /\ steps < MaxOps
  /\ passes[w].user = 0
  /\ LET rows == TemplateRows(u, 1)
     IN IF rows = <<>>
        THEN /\ reply' = Reply("template.generate", u, <<>>)
             /\ UNCHANGED passes
        ELSE /\ passes' = [passes EXCEPT ![w] =
                  [ user |-> u,
                    taken |-> {quests[i].templateId : i \in ActiveQuestIds(u)},
                    todo |-> rows,
                    made |-> <<>>,
                    rowsAtRead |-> Len(quests) ]]
             /\ UNCHANGED reply
  /\ steps' = steps + 1
  /\ UNCHANGED <<now, templates, quests, history, progression>>

\* Mutant: the loop body does not look at the list read before the loop.
ExistingInSnapshotUnchecked(w, tid) == FALSE

\* "2. Already Active?" of a pass in flight: activeQuests.find on the list it
\* read before the loop.
ExistingInSnapshot(w, tid) == tid \in passes[w].taken

\* template.generate, one turn of the loop of the pass in slot w: steps 1 to
\* 5 for the next template row; after the last row the pass returns
\* generatedQuests.
StepPass(w) ==
  LET pass == passes[w]
      u == pass.user
      tid == Head(pass.todo)
      fires == /\ IsTodayValid(Parsed(templates[tid]), now)
               /\ ~ExistingInSnapshot(w, tid)
               /\ countCompletions(tid, templates[tid].questType, now) < Freq(templates[tid])
      made == IF fires THEN Append(pass.made, Len(quests) + 1) ELSE pass.made
  IN /\ steps < MaxOps
     /\ pass.user # 0
     /\ quests' = IF fires THEN Append(quests, GeneratedQuest(u, tid)) ELSE quests
     /\ templates' = IF fires
                     THEN [templates EXCEPT ![tid].lastGeneratedAt = <<now>>]
                     ELSE templates
     /\ IF Tail(pass.todo) = <<>>
        THEN /\ passes' = [passes EXCEPT ![w] = IdlePass]
             /\ reply' = Reply("template.generate", u, made)
        ELSE /\ passes' = [passes EXCEPT ![w] = [pass EXCEPT !.todo = Tail(@), !.made = made]]
             /\ UNCHANGED reply
     /\ steps' = steps + 1
     /\ UNCHANGED <<now, history, progression>>

\* quest.create -> createQuest
CreateQuest(u, input) ==
  /\ steps < MaxOps
  /\ quests' = Append(quests, createQuest(u, input, now, FALSE))
  /\ reply' = Reply("quest.create", u, <<>>)
  /\ steps' = steps + 1
  /\ UNCHANGED passes
  /\ UNCHANGED <<now, templates, history, progression>>

\* Mutant: clearing does not stamp clearedAt.
updateQuestStatusNoStamp(qid, u, newStatus) ==
  IF quests[qid].userId = u
  THEN [quests EXCEPT ![qid] =
          [@ EXCEPT !.status = newStatus,
                    !.updatedAt = now,
                    !.acceptedAt = IF newStatus = "accepted" THEN <<now>> ELSE @]]
  ELSE quests

\* updateQuestStatus: the UPDATE is scoped by id and user, the row read back
\* by id alone.
updateQuestStatus(qid, u, newStatus) ==
  IF quests[qid].userId = u
  THEN [quests EXCEPT ![qid] =
          [@ EXCEPT !.status = newStatus,
                    !.updatedAt = now,
                    !.acceptedAt = IF newStatus = "accepted" THEN <<now>> ELSE @,
                    !.clearedAt = IF newStatus = "cleared" THEN <<now>> ELSE @]]
  ELSE quests

\* Mutant: a paused, cancelled or failed instance still pays its reward.
UpdateStatusPaysAlways(u, qid, newStatus) ==
  /\ steps < MaxOps
  /\ qid \in 1..Len(quests)
  /\ quests' = updateQuestStatus(qid, u, newStatus)
  /\ LET quest == quests'[qid]
         xpReward == calculateXpReward(quest.difficulty)
     IN IF newStatus \in TerminalStatuses
        THEN /\ progression' =
                  [progression EXCEPT ![u] =
                     updateUserProgression(@, xpReward, newStatus = "cleared", now)]
             /\ history' =
                  Append(history,
                         addToHistory(u, qid, quest, newStatus,
                                      IF newStatus = "cleared" THEN xpReward ELSE 0, now))
        ELSE UNCHANGED <<history, progression>>
  /\ reply' = [Reply("quest.updateStatus", u, <<>>) EXCEPT
                  !.questId = qid,
                  !.status = newStatus,
                  !.xpEarned = IF newStatus = "cleared"
                               THEN <<calculateXpReward(quests'[qid].difficulty)>>
                               ELSE <<>>]
  /\ steps' = steps + 1
  /\ UNCHANGED passes
  /\ UNCHANGED <<now, templates>>

\* quest.updateStatus
UpdateStatus(u, qid, newStatus) ==
  /\ steps < MaxOps
  /\ qid \in 1..Len(quests)
  /\ quests' = updateQuestStatus(qid, u, newStatus)
  /\ LET quest == quests'[qid]
         xpReward == calculateXpReward(quest.difficulty)
     IN IF newStatus = "cleared"
        THEN /\ progression' =
                  [progression EXCEPT ![u] = updateUserProgression(@, xpReward, TRUE, now)]
             /\ history' =
                  Append(history, addToHistory(u, qid, quest, "cleared", xpReward, now))
        ELSE IF newStatus \in {"paused", "cancelled", "failed"}
        THEN /\ history' =
                  Append(history, addToHistory(u, qid, quest, newStatus, 0, now))
             /\ UNCHANGED progression
        ELSE UNCHANGED <<history, progression>>
  /\ reply' = [Reply("quest.updateStatus", u, <<>>) EXCEPT
                  !.questId = qid,
                  !.status = newStatus,
                  !.xpEarned = IF newStatus = "cleared"
                               THEN <<calculateXpReward(quests'[qid].difficulty)>>
                               ELSE <<>>]
  /\ steps' = steps + 1
  /\ UNCHANGED passes
  /\ UNCHANGED <<now, templates>>

\* quest.updateStatus on an id with no row: updateQuestStatus returns
\* undefined; the cleared branch and the paused/cancelled/failed branch read
\* a property of it and throw before their first write, the other statuses
\* return undefined to the caller.
UpdateStatusMissing(u, qid, newStatus) ==
  /\ steps < MaxOps
  /\ qid \notin 1..Len(quests)
  /\ reply' = [Reply(IF newStatus \in TerminalStatuses
                     THEN "quest.updateStatus threw"
                     ELSE "quest.updateStatus", u, <<>>) EXCEPT
                  !.questId = qid,
                  !.status = newStatus]
  /\ steps' = steps + 1
  /\ UNCHANGED passes
  /\ UNCHANGED <<now, templates, quests, history, progression>>

\* quest.updateStatus with a terminal status when the store rejects one of
\* the handler's writes: the UPDATE of updateQuestStatus (at = 1), the
\* UPDATE of updateUserProgression (at = 2, cleared only) or the INSERT of
\* addToHistory (at = 3).  The writes are separate statements with no
\* transaction around them, so those before the failing one stay.
UpdateStatusFailing(u, qid, newStatus, at) ==
  /\ steps < MaxOps
  /\ qid \in 1..Len(quests)
  /\ newStatus \in TerminalStatuses
  /\ at \in 1..3
  /\ at = 2 => newStatus = "cleared"
  /\ quests' = IF at > 1 THEN updateQuestStatus(qid, u, newStatus) ELSE quests
  /\ progression' =
       IF at > 2 /\ newStatus = "cleared"
       THEN [progression EXCEPT ![u] =
               updateUserProgression(@, calculateXpReward(quests'[qid].difficulty),
                                     TRUE, now)]
       ELSE progression
  /\ reply' = [Reply("quest.updateStatus threw", u, <<>>) EXCEPT
                  !.questId = qid,
                  !.status = newStatus,
                  !.error = at]
  /\ steps' = steps + 1
  /\ UNCHANGED passes
  /\ UNCHANGED <<now, templates, history>>

\* updateQuestDeadline: the UPDATE is scoped by id and user.
updateQuestDeadline(qid, u, deadline) ==
  IF quests[qid].userId = u
  THEN [quests EXCEPT ![qid] = [@ EXCEPT !.deadline = deadline, !.updatedAt = now]]
  ELSE quests

\* quest.updateDeadline (the handler passes `input.deadline || null`)
UpdateDeadline(u, qid, deadline) ==
  /\ steps < MaxOps
  /\ qid \in 1..Len(quests)
  /\ quests' = updateQuestDeadline(qid, u, deadline)
  /\ reply' = [Reply("quest.updateDeadline", u, <<>>) EXCEPT !.questId = qid]
  /\ steps' = steps + 1
  /\ UNCHANGED passes
  /\ UNCHANGED <<now, templates, history, progression>>

\* Mutant: every terminal instance updated today is listed.
getActiveQuestsAnyTerminal(u) ==
  {i \in 1..Len(quests) :
     /\ quests[i].userId = u
     /\ \/ quests[i].status \in OpenStatuses
        \/ quests[i].status \in TerminalStatuses /\ quests[i].updatedAt >= now}

\* getActiveQuests(userId): the ids of the rows its WHERE clause selects
\* (today 00:00 <= updatedAt is updatedAt >= now in days).
getActiveQuests(u) ==
  {i \in 1..Len(quests) :
     /\ quests[i].userId = u
     /\ \/ quests[i].status \in OpenStatuses
        \/ quests[i].status \in {"cleared", "failed"} /\ quests[i].updatedAt >= now}

\* orderBy(desc(createdAt)): the ids of a set, newest first.
RECURSIVE NewestFirst(_)
NewestFirst(ids) ==
  IF ids = {} THEN <<>>
  ELSE LET top == CHOOSE i \in ids : \A j \in ids : j <= i
       IN <<top>> \o NewestFirst(ids \ {top})

\* quest.list: fixInconsistentData, then getActiveQuests.  The first only
\* rewrites names of Project rows joined to a project, and no row here has
\* a project, so it changes nothing.
ListQuests(u) ==
  /\ steps < MaxOps
  /\ reply' = Reply("quest.list", u, NewestFirst(getActiveQuests(u)))
  /\ steps' = steps + 1
  /\ UNCHANGED passes
  /\ UNCHANGED <<now, templates, quests, history, progression>>

\* progression.get: resetStreakIfNeeded, then the row is read.
GetProgression(u) ==
  /\ steps < MaxOps
  /\ progression' = [progression EXCEPT ![u] = resetStreakIfNeeded(@, now)]
  /\ reply' = Reply("progression.get", u, <<>>)
  /\ steps' = steps + 1
  /\ UNCHANGED passes
  /\ UNCHANGED <<now, templates, quests, history>>

\* Mutant: the day change fails the open instances whose deadline has passed.
AdvanceDayFailsOverdue ==
  /\ steps < MaxOps
  /\ now' = now + 1
  /\ steps' = steps + 1
  /\ UNCHANGED passes
  /\ reply' = Reply("none", 0, <<>>)
  /\ quests' = [i \in 1..Len(quests) |->
                  IF /\ quests[i].status \in OpenStatuses
                     /\ quests[i].deadline # <<>>
                     /\ quests[i].deadline[1] < now + 1
                  THEN [quests[i] EXCEPT !.status = "failed"]
                  ELSE quests[i]]
  /\ UNCHANGED <<templates, history, progression>>

\* The calendar day changes (no handler runs).
AdvanceDay ==
  /\ steps < MaxOps
  /\ now' = now + 1
  /\ steps' = steps + 1
  /\ UNCHANGED passes
  /\ reply' = Reply("none", 0, <<>>)
  /\ UNCHANGED <<templates, quests, history, progression>>

\* Generation runs: one user's templates, pickups, every status a card can
\* be moved to, and the day change.
GenStatuses == {"accepted", "cleared", "cancelled"}

Init == InitOn(GenStartDays)

Next ==
  \/ \E u \in Users, input \in GenTemplateInputs : CreateTemplate(u, input)
  \/ \E u \in Users, tid \in 1..Len(templates), a \in BOOLEAN : ToggleActive(u, tid, a)
  \/ \E u \in Users : GenerateQuests(u)
  \/ \E u \in Users, input \in QuestInputs : CreateQuest(u, input)
  \/ \E u \in Users, qid \in 1..Len(quests), s \in GenStatuses : UpdateStatus(u, qid, s)
  \/ \E u \in Users, qid \in 1..Len(quests), dl \in DeadlineInputs :
        UpdateDeadline(u, qid, dl)
  \/ \E u \in Users : GetProgression(u)
  \/ AdvanceDay

Spec == Init /\ [][Next]_vars

\* Evaluator runs: one template row of any scheduled kind, on the days around
\* a week, month and year boundary.
EvalStatuses == {"cleared", "failed"}

EvalInit == InitOn(EvalStartDays)

EvalNext ==
  \/ \E u \in Users, input \in EvalTemplateInputs :
        templates = <<>> /\ CreateTemplate(u, input)
  \/ \E u \in Users, tid \in 1..Len(templates), a \in BOOLEAN : ToggleActive(u, tid, a)
  \/ \E u \in Users : GenerateQuests(u)
  \/ \E u \in Users, input \in QuestInputs : CreateQuest(u, input)
  \/ \E u \in Users, qid \in 1..Len(quests), s \in EvalStatuses : UpdateStatus(u, qid, s)
  \/ AdvanceDay

EvalSpec == EvalInit /\ [][EvalNext]_vars

\* Fault runs: the generation runs with a store call that may reject during
\* a pass.
FaultNext ==
  \/ Next
  \/ \E u \in Users, tid \in 1..Len(templates) : GenerateQuestsFailing(u, tid)

FaultSpec == Init /\ [][FaultNext]_vars

\* Damaged-row runs: rows with an unparseable list beside a Daily template,
\* from the last days of January on.
MalformedStartDays == {0, 30}

MalformedInit == InitOn(MalformedStartDays)

MalformedNext ==
  \/ \E u \in Users, row \in MalformedTemplateRows :
        StoreTemplateRow(u, row.input, row.bad)
  \/ \E u \in Users : CreateTemplate(u, Shape("Daily", 0))
  \/ \E u \in Users : GenerateQuests(u)
  \/ \E u \in Users, qid \in 1..Len(quests) : UpdateStatus(u, qid, "cleared")
  \/ AdvanceDay

MalformedSpec == MalformedInit /\ [][MalformedNext]_vars

\* Two-caller runs: one Weekly template, its pickups and manual instances,
\* status calls on own, foreign and missing ids, and passes of both callers.
SharedStatuses == {"accepted", "cleared"}

SharedNext ==
  \/ \E u \in Accounts :
        templates = <<>> /\ CreateTemplate(u, [WeeklyMonWed EXCEPT !.frequency = 1])
  \/ \E u \in Accounts : GenerateQuests(u)
  \/ \E u \in Accounts, input \in QuestInputs : CreateQuest(u, input)
  \/ \E u \in Accounts, qid \in 1..Len(quests), s \in SharedStatuses :
        UpdateStatus(u, qid, s)
  \/ \E u \in Accounts, s \in SharedStatuses : UpdateStatusMissing(u, Len(quests) + 1, s)

SharedSpec == Init /\ [][SharedNext]_vars

\* Race runs: Daily and fixed-day Weekly templates, and generation passes
\* of one caller in two request slots, their reads and loop turns
\* interleaved in any order.
RaceNext ==
  \/ \E u \in Users, input \in {Shape("Daily", 0), WeeklyMonWed} : CreateTemplate(u, input)
  \/ \E w \in Workers, u \in Users : BeginPass(w, u)
  \/ \E w \in Workers : StepPass(w)

RaceSpec == Init /\ [][RaceNext]_vars

\* Clear-fault runs: one instance, clears that go through and clears in
\* which a store write rejects, progression reads and the day change.
ClearFaultNext ==
  \/ \E u \in Users, input \in ManualQuestInputs :
        quests = <<>> /\ CreateQuest(u, input)
  \/ \E u \in Users, qid \in 1..Len(quests) : UpdateStatus(u, qid, "cleared")
  \/ \E u \in Users, qid \in 1..Len(quests), at \in 1..3 :
        UpdateStatusFailing(u, qid, "cleared", at)
  \/ \E u \in Users : GetProgression(u)
  \/ AdvanceDay

ClearFaultSpec == Init /\ [][ClearFaultNext]_vars

\* View runs: one instance, every status of the enum, deadline edits, the
\* list of the active view and the day change.
ViewNext ==
  \/ \E u \in Users, input \in ManualQuestInputs :
        quests = <<>> /\ CreateQuest(u, input)
  \/ \E u \in Users, qid \in 1..Len(quests), s \in Statuses : UpdateStatus(u, qid, s)
  \/ \E u \in Users, qid \in 1..Len(quests), dl \in DeadlineInputs :
        UpdateDeadline(u, qid, dl)
  \/ \E u \in Users : ListQuests(u)
  \/ AdvanceDay

ViewSpec == Init /\ [][ViewNext]_vars

\* Progression runs: one instance, every status of the enum, progression
\* reads and the day change.
ProgressNext ==
  \/ \E u \in Users, input \in ManualQuestInputs :
        quests = <<>> /\ CreateQuest(u, input)
  \/ \E u \in Users, qid \in 1..Len(quests), s \in Statuses : UpdateStatus(u, qid, s)
  \/ \E u \in Users : GetProgression(u)
  \/ AdvanceDay

ProgressSpec == Init /\ [][ProgressNext]_vars

\* Deadline runs: one instance of any kind created around a week, month and
\* year end, its deadline edited, and the day change.
DeadlineInit == InitOn(DeadlineStartDays)

DeadlineNext ==
  \/ \E u \in Users, input \in DeadlineQuestInputs :
        quests = <<>> /\ CreateQuest(u, input)
  \/ \E u \in Users, qid \in 1..Len(quests), dl \in DeadlineInputs :
        UpdateDeadline(u, qid, dl)
  \/ AdvanceDay

DeadlineSpec == DeadlineInit /\ [][DeadlineNext]_vars

\* ------------------------------------------------------------------------
\* Vocabulary of the properties
\* ------------------------------------------------------------------------
TemplateIds == 1..Len(templates)
QuestIds == 1..Len(quests)

\* The last handler was a generation pass of user u.
JustGenerated(u) == reply.op = "template.generate" /\ reply.user = u

\* The instances that pass created.
ReplyIds == {reply.quests[k] : k \in DOMAIN reply.quests}
CreatedFor(tid) == \E i \in ReplyIds : quests[i].templateId = tid

IsOpen(i) == quests[i].status \in OpenStatuses

OpenInstances(u, tid) ==
  {i \in QuestIds : quests[i].userId = u /\ quests[i].templateId = tid /\ IsOpen(i)}

Max(a, b) == IF a >= b THEN a ELSE b

\* First day of the period of a kind that contains day d (the week starts on
\* Sunday).
QuotaPeriodStart(type, d) ==
  CASE type = "Daily" -> d
    [] type = "Weekly" -> d - getDay(d)
    [] type = "Monthly" -> d - (getDate(d) - 1)
    [] type = "Yearly" -> d - DateOf(d).yday
    [] OTHER -> d

\* A pool template: Weekly or Monthly with no fixed day.
IsPool(t) ==
  \/ t.questType = "Weekly" /\ t.daysOfWeek = {}
  \/ t.questType = "Monthly" /\ t.datesOfMonth = {} /\ t.weeksOfMonth = {}

\* Cleared history records of a template dated in the current period.
ClearedInPeriod(tid) ==
  {i \in 1..Len(history) :
     /\ history[i].templateId = tid
     /\ history[i].finalStatus = "cleared"
     /\ history[i].recordedAt >= QuotaPeriodStart(templates[tid].questType, now)
     /\ history[i].recordedAt <= now}

\* Instances the generator created for a template in the current period.
GeneratedInPeriod(tid) ==
  {i \in QuestIds :
     /\ quests[i].byGenerator
     /\ quests[i].templateId = tid
     /\ quests[i].createdAt >= QuotaPeriodStart(templates[tid].questType, now)}

\* ------------------------------------------------------------------------
\* C1: a second generation pass on the same day, with no other operation in
\* between, creates and returns nothing and leaves the instances as the
\* first pass left them.
\* ------------------------------------------------------------------------
C1_SecondPassCreatesNothing ==
  [][\A u \in Users :
       (JustGenerated(u) /\ GenerateQuests(u)) =>
         (quests' = quests /\ reply'.quests = <<>>)]_vars

\* Two passes in a row, the first of which created the template's instance.
C1_Witness ==
  /\ steps = 3
  /\ Len(templates) = 1
  /\ Len(quests) = 1
  /\ quests[1].byGenerator
  /\ quests[1].createdAt = now
  /\ JustGenerated(1)
  /\ reply.quests = <<>>

\* ------------------------------------------------------------------------
\* C2 (as claimed): after each generation pass every template has at most one
\* open instance, whatever manual creations and status updates came before.
\* ------------------------------------------------------------------------
C2_AtMostOneOpenAfterPass ==
  \A u \in Users :
    JustGenerated(u) => \A tid \in TemplateIds : Cardinality(OpenInstances(u, tid)) <= 1

\* C2 (amended): a generation pass never creates an instance of a template
\* that already has an open one; after the pass a template has at most one
\* open instance unless it had more than one before the pass.
C2_PassNeverAddsSecondOpen ==
  [][\A u \in Users :
       GenerateQuests(u) =>
         \A tid \in TemplateIds :
           Cardinality(OpenInstances(u, tid))' <=
             Max(1, Cardinality(OpenInstances(u, tid)))]_vars

\* A pass has just created the one open instance of a template that also
\* has a terminated instance.
C2_Witness ==
  \E u \in Users, tid \in TemplateIds :
    /\ JustGenerated(u)
    /\ CreatedFor(tid)
    /\ Cardinality(OpenInstances(u, tid)) = 1
    /\ \E i \in QuestIds : quests[i].templateId = tid /\ ~IsOpen(i)

\* ------------------------------------------------------------------------
\* C3 (as claimed): within one period of its kind the generator creates at
\* most `frequency` instances of a non-pool template.
\* ------------------------------------------------------------------------
C3_QuotaRespected ==
  \A tid \in TemplateIds :
    ~IsPool(templates[tid]) =>
      Cardinality(GeneratedInPeriod(tid)) <= Freq(templates[tid])

\* ------------------------------------------------------------------------
\* C4 (as claimed): once a Daily template's instances have been cleared
\* `frequency` times today, a generation pass creates no further instance of
\* it today.
\* ------------------------------------------------------------------------
C4_DailyQuotaBlocksToday ==
  \A u \in Users :
    JustGenerated(u) =>
      \A tid \in TemplateIds :
        ( /\ templates[tid].questType = "Daily"
          /\ Cardinality(ClearedInPeriod(tid)) >= Freq(templates[tid]) )
        => ~CreatedFor(tid)

\* ------------------------------------------------------------------------
\* The evaluator claims: templates a pass could generate for, but for the
\* day check
\* ------------------------------------------------------------------------

\* An open instance of the template that the pass found (not one it made).
OpenBeforePass(u, tid) == OpenInstances(u, tid) \ ReplyIds # {}

\* The generator's own period count is below the template's frequency.
QuotaUnmet(tid) ==
  countCompletions(tid, templates[tid].questType, now) < Freq(templates[tid])

\* User u's pass has just run over the active template tid of a kind, with
\* no open instance of it and its quota unmet.
Eligible(u, tid, kind) ==
  /\ JustGenerated(u)
  /\ templates[tid].userId = u
  /\ templates[tid].isActive
  /\ templates[tid].questType = kind
  /\ ~OpenBeforePass(u, tid)
  /\ QuotaUnmet(tid)

\* ceil(n / 7) for a day of the month
CeilDiv7(n) == CHOOSE k \in 1..5 : 7 * (k - 1) < n /\ n <= 7 * k

InSetOrUnset(x, set) == set = {} \/ x \in set

\* ------------------------------------------------------------------------
\* C5: a pass creates an instance of an eligible Weekly template iff
\* daysOfWeek is non-empty and contains today's weekday; with [1,3] it fires
\* on Monday 2024-01-01 and not on Tuesday 2024-01-02.
\* ------------------------------------------------------------------------
C5_WeeklyEvaluator ==
  \A u \in Users, tid \in TemplateIds :
    Eligible(u, tid, "Weekly") =>
      LET days == templates[tid].daysOfWeek
      IN /\ CreatedFor(tid) <=> (days # {} /\ getDay(now) \in days)
         /\ (days = {1, 3} /\ now = 0) => CreatedFor(tid)
         /\ (days = {1, 3} /\ now = 1) => ~CreatedFor(tid)

\* The Monday pass has created the instance of the [1,3] template.
C5_Witness ==
  \E u \in Users, tid \in TemplateIds :
    /\ Eligible(u, tid, "Weekly")
    /\ templates[tid].daysOfWeek = {1, 3}
    /\ now = 0
    /\ CreatedFor(tid)

\* ------------------------------------------------------------------------
\* C6 (as claimed): a pass creates an instance of an eligible Monthly
\* template iff datesOfMonth is set and contains today's date, or it is unset
\* and weeksOfMonth is set and contains ceil(date/7) and daysOfWeek is unset
\* or contains today's weekday.
\* ------------------------------------------------------------------------
MonthlyMatches(t, d) ==
  IF t.datesOfMonth # {} THEN getDate(d) \in t.datesOfMonth
  ELSE /\ t.weeksOfMonth # {}
       /\ CeilDiv7(getDate(d)) \in t.weeksOfMonth
       /\ InSetOrUnset(getDay(d), t.daysOfWeek)

C6_MonthlyEvaluator ==
  \A u \in Users, tid \in TemplateIds :
    Eligible(u, tid, "Monthly") =>
      (CreatedFor(tid) <=> MonthlyMatches(templates[tid], now))

\* ------------------------------------------------------------------------
\* C7: a pass creates an instance of an eligible Yearly template iff
\* monthOfYear is set and is today's month, weeksOfMonth is unset or contains
\* ceil(date/7), and daysOfWeek is unset or contains today's weekday.
\* ------------------------------------------------------------------------
YearlyMatches(t, d) ==
  /\ t.monthOfYear # 0
  /\ t.monthOfYear = DateOf(d).month
  /\ InSetOrUnset(CeilDiv7(getDate(d)), t.weeksOfMonth)
  /\ InSetOrUnset(getDay(d), t.daysOfWeek)

C7_YearlyEvaluator ==
  \A u \in Users, tid \in TemplateIds :
    Eligible(u, tid, "Yearly") =>
      /\ CreatedFor(tid) <=> YearlyMatches(templates[tid], now)
      /\ (templates[tid].monthOfYear = 12 /\ now < 335) => ~CreatedFor(tid)

\* A pass in the first week of January has created the instance of the
\* template set to January, week 1, Monday or Tuesday.
C7_Witness ==
  \E u \in Users, tid \in TemplateIds :
    /\ Eligible(u, tid, "Yearly")
    /\ templates[tid].monthOfYear = 1
    /\ templates[tid].weeksOfMonth = {1}
    /\ templates[tid].daysOfWeek # {}
    /\ CreatedFor(tid)

\* ------------------------------------------------------------------------
\* C8 (as claimed): a pass creates an instance of an eligible Project
\* template iff today lies in [startDate, endDate] and daysOfWeek is unset or
\* contains today's weekday.
\* ------------------------------------------------------------------------
ProjectMatches(t, d) ==
  /\ t.startDate # <<>> /\ t.endDate # <<>>
  /\ t.startDate[1] <= d /\ d <= t.endDate[1]
  /\ InSetOrUnset(getDay(d), t.daysOfWeek)

C8_ProjectEvaluator ==
  \A u \in Users, tid \in TemplateIds :
    Eligible(u, tid, "Project") =>
      (CreatedFor(tid) <=> ProjectMatches(templates[tid], now))

\* C8 (amended): a pass never creates an instance of a Project template,
\* inside its date range or outside.
C8_ProjectNeverGenerated ==
  \A u \in Users, tid \in TemplateIds :
    (JustGenerated(u) /\ templates[tid].questType = "Project") => ~CreatedFor(tid)

\* A pass has run over an eligible Project template on a day in its range.
C8_Witness ==
  \E u \in Users, tid \in TemplateIds :
    /\ Eligible(u, tid, "Project")
    /\ ProjectMatches(templates[tid], now)
    /\ ~CreatedFor(tid)

\* ------------------------------------------------------------------------
\* C9: a pass never creates an instance of a Relax template, of a Weekly
\* template without daysOfWeek, or of a Monthly template without
\* datesOfMonth and weeksOfMonth.
\* ------------------------------------------------------------------------
C9_PoolAndRelaxNeverGenerated ==
  \A u \in Users :
    JustGenerated(u) =>
      \A tid \in TemplateIds :
        (templates[tid].questType = "Relax" \/ IsPool(templates[tid]))
          => ~CreatedFor(tid)

\* A pass has run over an eligible Relax template and an eligible Weekly
\* pool template.
C9_Witness ==
  \E u \in Users, r \in TemplateIds, w \in TemplateIds :
    /\ Eligible(u, r, "Relax")
    /\ Eligible(u, w, "Weekly")
    /\ templates[w].daysOfWeek = {}
    /\ ~CreatedFor(r) /\ ~CreatedFor(w)

\* ------------------------------------------------------------------------
\* C10: a pass creates instances of active templates only, and
\* toggleActive changes no instance.
\* ------------------------------------------------------------------------
C10_InactiveNeverGenerates ==
  [][\A u \in Users :
       /\ GenerateQuests(u) =>
            \A i \in (Len(quests) + 1)..Len(quests') :
              templates[quests'[i].templateId].isActive
       /\ \A tid \in TemplateIds, a \in BOOLEAN :
            ToggleActive(u, tid, a) => quests' = quests]_vars

\* A pass has run over a deactivated Daily template whose earlier instance
\* is closed, and has made no new one.
C10_Witness ==
  \E u \in Users, tid \in TemplateIds :
    /\ JustGenerated(u)
    /\ templates[tid].userId = u
    /\ ~templates[tid].isActive
    /\ templates[tid].questType = "Daily"
    /\ OpenInstances(u, tid) = {}
    /\ \E i \in QuestIds : quests[i].templateId = tid /\ quests[i].byGenerator
    /\ ~CreatedFor(tid)

\* ------------------------------------------------------------------------
\* Vocabulary of the status and progression properties
\* ------------------------------------------------------------------------
LastRecord(h) == h[Len(h)]

\* The history grew by exactly one row, at its end.
OneRecordAdded == Len(history') = Len(history) + 1 /\ SubSeq(history', 1, Len(history)) = history

\* The last handler was quest.updateStatus(qid, st) of user u.
JustUpdated(u, qid, st) ==
  /\ reply.op = "quest.updateStatus"
  /\ reply.user = u
  /\ reply.questId = qid
  /\ reply.status = st

\* ------------------------------------------------------------------------
\* C11: quest.updateStatus(cleared) on an instance of difficulty "1", "2" or
\* "3" adds exactly 10, 25 or 50 to the caller's totalXp, returns that amount
\* as xpEarned and writes one history record with finalStatus cleared and
\* the same xpEarned.
\* ------------------------------------------------------------------------
C11_ClearAwardsXp ==
  [][\A u \in Users, qid \in QuestIds :
       UpdateStatus(u, qid, "cleared") =>
         LET xp == CASE quests[qid].difficulty = "1" -> 10
                     [] quests[qid].difficulty = "2" -> 25
                     [] quests[qid].difficulty = "3" -> 50
         IN /\ progression'[u].totalXp = progression[u].totalXp + xp
            /\ reply'.xpEarned = <<xp>>
            /\ OneRecordAdded
            /\ LastRecord(history').questId = qid
            /\ LastRecord(history').finalStatus = "cleared"
            /\ LastRecord(history').xpEarned = xp]_vars

\* A difficulty "3" instance has just been cleared for 50 XP, the caller's
\* first award, and the history holds the one record of it.
C11_Witness ==
  \E u \in Users, qid \in QuestIds :
    /\ JustUpdated(u, qid, "cleared")
    /\ quests[qid].difficulty = "3"
    /\ reply.xpEarned = <<50>>
    /\ progression[u].totalXp = 50
    /\ Len(history) = 1
    /\ LastRecord(history).xpEarned = 50

\* ------------------------------------------------------------------------
\* C12: every quest.updateStatus call with a new status of cleared, paused,
\* cancelled or failed appends exactly one history record, whose finalStatus
\* is the new status and whose templateId is the instance's; every call with
\* a new status of unreceived, accepted, challenging or almost appends none.
\* ------------------------------------------------------------------------
C12_OneRecordPerTerminalCall ==
  [][\A u \in Users, qid \in QuestIds, st \in Statuses :
       UpdateStatus(u, qid, st) =>
         IF st \in TerminalStatuses
         THEN /\ OneRecordAdded
              /\ LastRecord(history').questId = qid
              /\ LastRecord(history').finalStatus = st
              /\ LastRecord(history').templateId = quests[qid].templateId
         ELSE history' = history]_vars

\* An instance with a template id has been moved to challenging (no record)
\* and then paused (one record, carrying the template id).
C12_Witness ==
  \E u \in Users, qid \in QuestIds :
    /\ JustUpdated(u, qid, "paused")
    /\ quests[qid].templateId = 1
    /\ quests[qid].updatedAt > quests[qid].createdAt
    /\ Len(history) = 1
    /\ LastRecord(history).finalStatus = "paused"
    /\ LastRecord(history).templateId = 1

\* ------------------------------------------------------------------------
\* C13: once an instance is cleared, paused, cancelled or failed, no later
\* quest.updateStatus call changes its status, awards XP for it or appends
\* another history record for it.
\* ------------------------------------------------------------------------
C13_TerminalIsTerminal ==
  [][\A u \in Users, qid \in QuestIds, st \in Statuses :
       (UpdateStatus(u, qid, st) /\ quests[qid].status \in TerminalStatuses) =>
         /\ quests'[qid].status = quests[qid].status
         /\ progression'[u].totalXp = progression[u].totalXp
         /\ history' = history]_vars

\* ------------------------------------------------------------------------
\* C14: a clear leaves currentStreak unchanged when lastClearedDate is
\* today, adds 1 when it is yesterday and sets it to 1 otherwise; afterwards
\* longestStreak is the larger of the old longestStreak and the new
\* currentStreak, and lastClearedDate is today.
\* ------------------------------------------------------------------------
C14_StreakUpdateOnClear ==
  [][\A u \in Users, qid \in QuestIds :
       UpdateStatus(u, qid, "cleared") =>
         LET old == progression[u]
             new == progression'[u]
         IN /\ new.currentStreak =
                 IF old.lastClearedDate = <<now>> THEN old.currentStreak
                 ELSE IF old.lastClearedDate = <<now - 1>> THEN old.currentStreak + 1
                 ELSE 1
            /\ new.longestStreak = Max(old.longestStreak, new.currentStreak)
            /\ new.lastClearedDate = <<now>>]_vars

\* A clear on the day after a clear has raised the streak to 2.
C14_Witness ==
  \E u \in Users, qid \in QuestIds :
    /\ JustUpdated(u, qid, "cleared")
    /\ progression[u].currentStreak = 2
    /\ progression[u].longestStreak = 2
    /\ progression[u].lastClearedDate = <<now>>

\* ------------------------------------------------------------------------
\* C15: immediately after a clear on day D, currentStreak is the length of
\* the longest run of consecutive days ending at D on each of which at least
\* one instance was cleared, whatever status changes, progression reads and
\* day changes came before.
\* ------------------------------------------------------------------------
ClearedOn(u, d) ==
  \E i \in 1..Len(history) :
    /\ history[i].userId = u
    /\ history[i].finalStatus = "cleared"
    /\ history[i].recordedAt = d

RECURSIVE RunEndingAt(_, _)
RunEndingAt(u, d) == IF ClearedOn(u, d) THEN 1 + RunEndingAt(u, d - 1) ELSE 0

C15_StreakIsRunOfClearedDays ==
  \A u \in Users :
    (reply.op = "quest.updateStatus" /\ reply.user = u /\ reply.status = "cleared")
      => progression[u].currentStreak = RunEndingAt(u, now)

\* A clear has made a run of two days, with a progression read or a
\* non-clearing status change among the calls since the instance was made.
C15_Witness ==
  \E u \in Users, qid \in QuestIds :
    /\ JustUpdated(u, qid, "cleared")
    /\ RunEndingAt(u, now) = 2
    /\ steps = 5
    /\ Len(history) = 2
    /\ quests[qid].createdAt = 0
    /\ now = 1

\* ------------------------------------------------------------------------
\* C16: the idle check of progression.get sets currentStreak to 0 exactly
\* when lastClearedDate is set and is neither today nor yesterday, changes
\* nothing otherwise, and never touches totalXp, longestStreak or
\* lastClearedDate.
\* ------------------------------------------------------------------------
C16_LazyStreakDecay ==
  [][\A u \in Users :
       GetProgression(u) =>
         LET old == progression[u]
             new == progression'[u]
             idle == /\ old.lastClearedDate # <<>>
                     /\ old.lastClearedDate # <<now>>
                     /\ old.lastClearedDate # <<now - 1>>
         IN /\ new.currentStreak = IF idle THEN 0 ELSE old.currentStreak
            /\ new.totalXp = old.totalXp
            /\ new.longestStreak = old.longestStreak
            /\ new.lastClearedDate = old.lastClearedDate
            /\ quests' = quests /\ history' = history]_vars

\* A read two days after the last clear has zeroed the streak and kept the
\* XP, the record streak and the date.
C16_Witness ==
  \E u \in Users :
    /\ reply.op = "progression.get" /\ reply.user = u
    /\ progression[u].lastClearedDate = <<now - 2>>
    /\ progression[u].currentStreak = 0
    /\ progression[u].longestStreak = 1
    /\ progression[u].totalXp > 0

\* ------------------------------------------------------------------------
\* C17: quest.updateStatus to paused, cancelled or failed writes a history
\* record with xpEarned 0 and leaves the progression row as it was; the row
\* changes only in a cleared transition or in the idle check.
\* ------------------------------------------------------------------------
C17_OnlyClearChangesProgression ==
  [][/\ \A u \in Users, qid \in QuestIds, st \in {"paused", "cancelled", "failed"} :
          UpdateStatus(u, qid, st) =>
            /\ OneRecordAdded
            /\ LastRecord(history').finalStatus = st
            /\ LastRecord(history').xpEarned = 0
            /\ progression' = progression
     /\ progression' # progression =>
          \/ \E u \in Users, qid \in QuestIds : UpdateStatus(u, qid, "cleared")
          \/ \E u \in Users : GetProgression(u)]_vars

\* A difficulty "3" instance has been failed by a user who has cleared
\* nothing: the record carries no XP and the progression row is still the
\* initial one.
C17_Witness ==
  \E u \in Users, qid \in QuestIds :
    /\ JustUpdated(u, qid, "failed")
    /\ quests[qid].difficulty = "3"
    /\ LastRecord(history).finalStatus = "failed"
    /\ LastRecord(history).xpEarned = 0
    /\ progression[u] = InitProgression

\* ------------------------------------------------------------------------
\* C18: createQuest stores the supplied deadline when one is given (null
\* included); otherwise, unless autoDeadline is false, the deadline is the
\* end of the creation day (Daily), of the coming Sunday, the same day on a
\* Sunday (Weekly), of the last day of the month (Monthly), of December 31
\* (Yearly), and none for Free and Relax.
\* ------------------------------------------------------------------------
ComingSunday(d) == CHOOSE e \in d..(d + 6) : getDay(e) = 0

LastDayOfMonth(d) ==
  CHOOSE e \in d..(d + 30) :
    /\ DateOf(e).month = DateOf(d).month
    /\ DateOf(e + 1).month # DateOf(d).month

LastDayOfYear(d) ==
  CHOOSE e \in d..(d + 365) :
    /\ DateOf(e).year = DateOf(d).year
    /\ DateOf(e).month = 12
    /\ DateOf(e).date = 31

ExpectedDeadline(input, d, deadline) ==
  IF input.deadlineGiven THEN deadline = input.deadline
  ELSE IF ~input.autoDeadline THEN deadline = <<>>
  ELSE CASE input.questType = "Daily" -> deadline = <<d>>
         [] input.questType = "Weekly" -> deadline = <<ComingSunday(d)>>
         [] input.questType = "Monthly" -> deadline = <<LastDayOfMonth(d)>>
         [] input.questType = "Yearly" -> deadline = <<LastDayOfYear(d)>>
         [] input.questType \in {"Free", "Relax"} -> deadline = <<>>
         [] OTHER -> TRUE

C18_AutoDeadlineAtCreation ==
  [][\A u \in Users, input \in DeadlineQuestInputs :
       CreateQuest(u, input) =>
         ExpectedDeadline(input, now, LastRecord(quests').deadline)]_vars

\* A Weekly instance created on a Sunday without a deadline is due the same
\* day.
C18_Witness ==
  /\ reply.op = "quest.create"
  /\ quests # <<>>
  /\ LastRecord(quests).questType = "Weekly"
  /\ LastRecord(quests).createdAt = now
  /\ getDay(now) = 0
  /\ LastRecord(quests).deadline = <<now>>

\* ------------------------------------------------------------------------
\* C19: an instance's status changes only in a quest.updateStatus call on
\* that instance; a day change past the deadline, a generation pass, a
\* progression read and a deadline edit leave every status as it was.
\* ------------------------------------------------------------------------
C19_StatusChangesOnlyByUpdateStatus ==
  [][/\ \A i \in QuestIds :
          quests'[i].status # quests[i].status =>
            \E u \in Users, st \in Statuses : UpdateStatus(u, i, st)
     /\ (\/ AdvanceDay
         \/ \E u \in Users : GenerateQuests(u) \/ GetProgression(u)
         \/ \E u \in Users, i \in QuestIds, dl \in DeadlineInputs : UpdateDeadline(u, i, dl))
        => \A i \in QuestIds : quests'[i].status = quests[i].status]_vars

\* A generation pass has run the day after the deadline of a generated
\* instance that was never received: the instance is still unreceived.
C19_Witness ==
  \E u \in Users, i \in QuestIds :
    /\ JustGenerated(u)
    /\ quests[i].userId = u
    /\ quests[i].byGenerator
    /\ quests[i].deadline = <<now - 1>>
    /\ quests[i].status = "unreceived"

\* ------------------------------------------------------------------------
\* C20: when the processing of one template fails during a generation pass,
\* the pass still creates and returns the instances of every other template
\* that is due.
\* ------------------------------------------------------------------------
C20_FailureIsIsolated ==
  [][\A u \in Users, tid \in TemplateIds :
       GenerateQuestsFailing(u, tid) =>
         \A other \in TemplateIds \ {tid} :
           (other \in ActiveTemplateIds(u) /\ ShouldGenerate(u, other)) =>
             \E i \in (Len(quests) + 1)..Len(quests') :
               /\ quests'[i].templateId = other
               /\ \E k \in DOMAIN reply'.quests : reply'.quests[k] = i]_vars

\* ------------------------------------------------------------------------
\* C21 (as claimed): a pass creates no instance, on any day, of a template
\* of a kind other than Daily that has a constraint list that does not
\* parse.
\* ------------------------------------------------------------------------
C21_MalformedNeverFires ==
  \A u \in Users, tid \in TemplateIds :
    (/\ JustGenerated(u)
     /\ templates[tid].questType # "Daily"
     /\ templates[tid].unparseable # {}) => ~CreatedFor(tid)

\* The row with every list that does not parse replaced by the empty list.
WithListsEmptied(t) ==
  [c \in DOMAIN t |-> IF c \in t.unparseable THEN {} ELSE t[c]]

\* ------------------------------------------------------------------------
\* C21 (amended): a pass always completes, and it treats a list that does
\* not parse as empty: it creates an instance of the template exactly when
\* it would for the same row with that list empty.  A Weekly template with
\* an unparseable daysOfWeek therefore never fires, while a Yearly template
\* loses the restriction and fires on every day of its month that the
\* remaining lists allow.
\* ------------------------------------------------------------------------
C21_MalformedListIsEmptyList ==
  \A u \in Users, tid \in TemplateIds :
    (/\ JustGenerated(u)
     /\ templates[tid].userId = u
     /\ templates[tid].isActive
     /\ templates[tid].unparseable # {}
     /\ ~OpenBeforePass(u, tid)
     /\ QuotaUnmet(tid)) =>
      LET t == WithListsEmptied(templates[tid])
      IN /\ CreatedFor(tid) <=>
              \/ t.questType = "Weekly" /\ t.daysOfWeek # {} /\ getDay(now) \in t.daysOfWeek
              \/ t.questType = "Yearly" /\ YearlyMatches(t, now)
         /\ (t.questType = "Weekly" /\ "daysOfWeek" \in templates[tid].unparseable)
              => ~CreatedFor(tid)

\* A Monday pass in January has created the instance of a Yearly template
\* for January whose damaged daysOfWeek spelled Tuesday, next to the
\* instance of a Daily template.
C21_Witness ==
  \E u \in Users, tid \in TemplateIds, daily \in TemplateIds :
    /\ JustGenerated(u)
    /\ templates[tid].questType = "Yearly"
    /\ templates[tid].unparseable = {"daysOfWeek"}
    /\ templates[tid].daysOfWeek = {2}
    /\ getDay(now) = 1
    /\ CreatedFor(tid)
    /\ templates[daily].questType = "Daily"
    /\ CreatedFor(daily)

\* ------------------------------------------------------------------------
\* C22: quest.updateStatus by user U on an id that has no row, or whose row
\* belongs to another user, fails with an error and changes no instance, no
\* history record and no progression row, U's included.
\* ------------------------------------------------------------------------
C22_NotFoundMutatesNothing ==
  [][\A u \in Accounts, st \in Statuses :
       /\ \A qid \in QuestIds :
            (UpdateStatus(u, qid, st) /\ quests[qid].userId # u) =>
              /\ reply'.op = "quest.updateStatus threw"
              /\ quests' = quests /\ history' = history /\ progression' = progression
       /\ UpdateStatusMissing(u, Len(quests) + 1, st) =>
              /\ reply'.op = "quest.updateStatus threw"
              /\ quests' = quests /\ history' = history /\ progression' = progression]_vars

\* ------------------------------------------------------------------------
\* C23: no call of user A changes an instance, a history record or the
\* progression row of another user B, and a generation pass for B creates
\* the instances that B's own templates, instances and history call for.
\* ------------------------------------------------------------------------
OwnedRows(table, u) == {i \in 1..Len(table) : table[i].userId = u}

\* Cleared records of user u in the current period that belong to template
\* tid: by template id, or without one under the template's name.
OwnCleared(u, tid) ==
  {i \in OwnedRows(history, u) :
     /\ history[i].finalStatus = "cleared"
     /\ history[i].questType = templates[tid].questType
     /\ history[i].recordedAt >= QuotaPeriodStart(templates[tid].questType, now)
     /\ \/ history[i].templateId = tid
        \/ /\ history[i].templateId = 0
           /\ history[i].questName = PlainName(templates[tid].questName)}

C23_NoCrossUserInterference ==
  [][\A a \in Accounts : \A b \in Accounts \ {a} :
       /\ reply'.user = a =>
            /\ OwnedRows(quests', b) = OwnedRows(quests, b)
            /\ \A i \in OwnedRows(quests, b) : quests'[i] = quests[i]
            /\ OwnedRows(history', b) = OwnedRows(history, b)
            /\ progression'[b] = progression[b]
       /\ GenerateQuests(b) =>
            \A tid \in TemplateIds :
              (templates[tid].userId = b /\ templates[tid].isActive) =>
                ((\E i \in (Len(quests) + 1)..Len(quests') : quests'[i].templateId = tid)
                   <=> /\ IsTodayValid(templates[tid], now)
                       /\ OpenInstances(b, tid) = {}
                       /\ Cardinality(OwnCleared(b, tid)) < Freq(templates[tid]))]_vars

\* ------------------------------------------------------------------------
\* C24: two open instances of one template arise from generation passes
\* only when the passes overlap: a pass adds an instance of a template that
\* has an open instance only if that instance was inserted by another pass
\* after this pass had read the open-instance list.  (The state with the
\* two open instances is the witness; C2 covers passes run one after the
\* other.)
\* ------------------------------------------------------------------------
C24_DuplicateOnlyFromOverlap ==
  [][\A w \in Workers :
       StepPass(w) =>
         \A i \in (Len(quests) + 1)..Len(quests') : \A j \in QuestIds :
           (/\ quests[j].templateId = quests'[i].templateId
            /\ quests[j].userId = quests'[i].userId
            /\ IsOpen(j)) =>
             /\ j > passes[w].rowsAtRead
             /\ \A k \in DOMAIN passes[w].made : passes[w].made[k] # j]_vars

\* Two passes that both read the list before either inserted have left two
\* unreceived instances of the same template.
C24_Witness ==
  \E i \in QuestIds, j \in QuestIds :
    /\ i < j
    /\ quests[i].templateId = quests[j].templateId
    /\ quests[i].userId = quests[j].userId
    /\ quests[i].byGenerator /\ quests[j].byGenerator
    /\ quests[i].status = "unreceived" /\ quests[j].status = "unreceived"
    /\ reply.op = "template.generate"

\* ------------------------------------------------------------------------
\* C25: a created instance starts unreceived, or accepted when the input
\* asks for it; from every open status a status call to paused, cancelled
\* or failed yields that status; and each step of unreceived, accepted,
\* challenging, cleared yields the status asked for, the cleared instance
\* having clearedAt set.
\* ------------------------------------------------------------------------
HappyPath ==
  { <<"unreceived", "accepted">>, <<"accepted", "challenging">>,
    <<"challenging", "cleared">> }

ClearedOfKindInPeriod(tid) ==
  {i \in 1..Len(history) :
     /\ history[i].finalStatus = "cleared"
     /\ history[i].questType = templates[tid].questType
     /\ history[i].recordedAt >= QuotaPeriodStart(templates[tid].questType, now)}

C26_CountsOnlyOwnTemplateId ==
  \A u \in Users : \A tid \in ActiveTemplateIds(u) :
    HasPeriod(templates[tid].questType) =>
      countCompletions(tid, templates[tid].questType, now) =
        Cardinality({i \in ClearedOfKindInPeriod(tid) : history[i].templateId = tid})

\* C26 (amended): the count takes the cleared records of the period and kind
\* whose templateId is the template's id, and those without a templateId
\* whose name is the template's name; a record that carries another
\* template's id is never counted, whatever its name.
C26_CountsOwnAndUnlinkedNamesakes ==
  \A u \in Users : \A tid \in ActiveTemplateIds(u) :
    HasPeriod(templates[tid].questType) =>
      countCompletions(tid, templates[tid].questType, now) =
        Cardinality({i \in ClearedOfKindInPeriod(tid) :
                       \/ history[i].templateId = tid
                       \/ /\ history[i].templateId = 0
                          /\ history[i].questName = PlainName(templates[tid].questName)})

\* An instance of template 2, of the name and kind of template 1, has been
\* cleared, and the pass after it has created template 1's instance.
C26_Witness ==
  \E u \in Users, i \in 1..Len(history) :
    /\ Len(templates) >= 2
    /\ JustGenerated(u)
    /\ CreatedFor(1)
    /\ HasPeriod(templates[1].questType)
    /\ history[i].templateId = 2
    /\ history[i].finalStatus = "cleared"
    /\ history[i].questType = templates[1].questType
    /\ history[i].questName = PlainName(templates[1].questName)

\* ------------------------------------------------------------------------
\* C27: a paused, cancelled or failed record of a Weekly, Monthly or Yearly
\* template is not counted towards its quota, and a pass on a matching day,
\* with the quota unmet and no instance open, creates a replacement
\* instance of the template.
\* ------------------------------------------------------------------------
MatchesToday(t) ==
  CASE t.questType = "Weekly" -> t.daysOfWeek # {} /\ getDay(now) \in t.daysOfWeek
    [] t.questType = "Monthly" -> MonthlyMatches(t, now)
    [] t.questType = "Yearly" -> YearlyMatches(t, now)
    [] OTHER -> FALSE

AbandonedRecords(tid) ==
  {i \in 1..Len(history) :
     /\ history[i].templateId = tid
     /\ history[i].finalStatus \in {"paused", "cancelled", "failed"}}

C27_AbandonedInstanceIsReplaced ==
  \A u \in Users, tid \in TemplateIds :
    (AbandonedRecords(tid) # {} /\ HasPeriod(templates[tid].questType)) =>
      /\ \A i \in AbandonedRecords(tid) :
           ~CountsFor(history[i], tid, templates[tid].questType, now)
      /\ \A kind \in {"Weekly", "Monthly", "Yearly"} :
           (Eligible(u, tid, kind) /\ MatchesToday(templates[tid])) => CreatedFor(tid)

\* ------------------------------------------------------------------------
\* C28: the completion count of a Weekly template takes exactly the cleared
\* records dated on or after the most recent Sunday (today on a Sunday), of
\* a Monthly template those dated in the current month, of a Yearly template
\* those dated in the current year; a record dated the day before the
\* boundary is not counted.  Both counters use these windows.
\* ------------------------------------------------------------------------
InCurrentPeriod(type, r) ==
  /\ r <= now
  /\ CASE type = "Weekly" -> \A s \in (r + 1)..now : getDay(s) # 0
       [] type = "Monthly" -> /\ DateOf(r).year = DateOf(now).year
                              /\ DateOf(r).month = DateOf(now).month
       [] type = "Yearly" -> DateOf(r).year = DateOf(now).year

\* Cleared records of the template's kind that the generator attributes to
\* the template, whatever their date.
AttributedCleared(tid) ==
  {i \in 1..Len(history) :
     /\ history[i].finalStatus = "cleared"
     /\ history[i].questType = templates[tid].questType
     /\ \/ history[i].templateId = tid
        \/ /\ history[i].templateId = 0
           /\ history[i].questName = PlainName(templates[tid].questName)}

C28_PeriodBoundaries ==
  \A u \in Users : \A tid \in ActiveTemplateIds(u) :
    LET type == templates[tid].questType
    IN HasPeriod(type) =>
         /\ countCompletions(tid, type, now) =
              Cardinality({i \in AttributedCleared(tid) :
                             InCurrentPeriod(type, history[i].recordedAt)})
         /\ getTemplateCompletionCount(tid, type, now) =
              Cardinality({i \in AttributedCleared(tid) :
                             /\ history[i].templateId = tid
                             /\ InCurrentPeriod(type, history[i].recordedAt)})

\* On the first day of a period the template's instance cleared the day
\* before is no longer counted, and the quota is unmet again.
C28_Witness ==
  \E u \in Users : \E tid \in ActiveTemplateIds(u) : \E i \in 1..Len(history) :
    /\ HasPeriod(templates[tid].questType)
    /\ history[i].templateId = tid
    /\ history[i].questType = templates[tid].questType
    /\ history[i].finalStatus = "cleared"
    /\ history[i].recordedAt = now - 1
    /\ ~InCurrentPeriod(templates[tid].questType, now - 1)
    /\ countCompletions(tid, templates[tid].questType, now) = 0
    /\ QuotaUnmet(tid)

\* ------------------------------------------------------------------------
\* C29: an instance generated from a template of frequency N > 1 is named
\* "{template name} (k/N)", k being the cleared count the template has in
\* the current period plus 1, with 1 <= k <= N; from a template of
\* frequency 1 it carries the template name unchanged; it copies the
\* template's kind, difficulty and id and starts unreceived.
\* ------------------------------------------------------------------------
ClearedThisPeriod(tid) ==
  {i \in AttributedCleared(tid) :
     history[i].recordedAt >= QuotaPeriodStart(templates[tid].questType, now)}

C29_ProgressAnnotation ==
  \A u \in Users, tid \in TemplateIds, i \in ReplyIds :
    (JustGenerated(u) /\ quests[i].templateId = tid) =>
      LET t == templates[tid]
          N == Freq(t)
          k == Cardinality(ClearedThisPeriod(tid)) + 1
      IN /\ quests[i].questName =
              (IF N > 1 THEN [base |-> t.questName, k |-> k, n |-> N]
               ELSE PlainName(t.questName))
         /\ N > 1 => (1 <= k /\ k <= N)
         /\ quests[i].questType = t.questType
         /\ quests[i].difficulty = t.difficulty
         /\ quests[i].status = "unreceived"

\* ------------------------------------------------------------------------
\* C30: for every template the generator's countCompletions and
\* getTemplateCompletionCount return the same number when evaluated on the
\* same history at the same moment.
\* ------------------------------------------------------------------------
C30_OnePeriodCounter ==
  \A u \in Users : \A tid \in ActiveTemplateIds(u) :
    countCompletions(tid, templates[tid].questType, now) =
      getTemplateCompletionCount(tid, templates[tid].questType, now)

\* ------------------------------------------------------------------------
\* C31: a status call changes an instance's status only along unreceived to
\* accepted, accepted to challenging, challenging to almost, almost to
\* cleared, or to paused or cancelled (failed, which the state diagram also
\* allows from an open status, is admitted here as well); any other request
\* leaves the status as it was.
\* ------------------------------------------------------------------------
DocumentedTransitions ==
  { <<"unreceived", "accepted">>, <<"accepted", "challenging">>,
    <<"challenging", "almost">>, <<"almost", "cleared">> }
    \cup { <<from, to>> : from \in Statuses, to \in {"paused", "cancelled"} }
    \cup { <<from, "failed">> : from \in OpenStatuses }

C31_OnlyDocumentedTransitions ==
  [][\A u \in Users, qid \in QuestIds, st \in Statuses :
       (UpdateStatus(u, qid, st) /\ quests'[qid].status # quests[qid].status) =>
         <<quests[qid].status, quests'[qid].status>> \in DocumentedTransitions]_vars

\* ------------------------------------------------------------------------
\* C32: when the store fails during a clear, none of the call's effects
\* persists: in every reachable state an instance is cleared iff a cleared
\* history record exists for it, and then its reward is part of its
\* owner's totalXp; a failing call leaves instances, progression and
\* history as they were.
\* ------------------------------------------------------------------------
ClearedRecordsOf(qid) ==
  {i \in 1..Len(history) :
     history[i].questId = qid /\ history[i].finalStatus = "cleared"}

C32_ClearIsAllOrNothing ==
  \A qid \in QuestIds :
    /\ quests[qid].status = "cleared" <=> ClearedRecordsOf(qid) # {}
    /\ quests[qid].status = "cleared" =>
         progression[quests[qid].userId].totalXp >=
           calculateXpReward(quests[qid].difficulty)

\* ------------------------------------------------------------------------
\* C33 (as claimed): the list returns every open instance of the caller,
\* and an instance in a terminal status iff it reached that status today.
\* ------------------------------------------------------------------------
Listed(u) == reply.op = "quest.list" /\ reply.user = u

ReachedToday(qid) ==
  \E i \in 1..Len(history) :
    /\ history[i].questId = qid
    /\ history[i].finalStatus = quests[qid].status
    /\ history[i].recordedAt = now

StreakInBounds(p) == 0 <= p.currentStreak /\ p.currentStreak <= p.longestStreak

NotEarlier(old, new) ==
  old # <<>> => (new # <<>> /\ new[1] >= old[1])

C34_StreakBounds ==
  [][\A u \in Users :
       /\ StreakInBounds(progression[u])
       /\ StreakInBounds(progression'[u])
       /\ progression'[u].longestStreak >= progression[u].longestStreak
       /\ NotEarlier(progression[u].lastClearedDate,
                     progression'[u].lastClearedDate)]_vars

\* Two days after the first clear a second clear has restarted the streak at
\* 1, below or at the record, and moved lastClearedDate forward to today.
C34_Witness ==
  \E u \in Users, qid \in QuestIds :
    /\ JustUpdated(u, qid, "cleared")
    /\ Len(history) = 2
    /\ history[1].finalStatus = "cleared"
    /\ history[1].recordedAt = now - 2
    /\ progression[u].currentStreak = 1
    /\ progression[u].longestStreak = 1
    /\ progression[u].lastClearedDate = <<now>>

\* ------------------------------------------------------------------------
\* C35: through quest.create, quest.updateStatus, template.generate and
\* progression.get, with every store call succeeding, a user's totalXp is
\* the sum of xpEarned over that user's history records, and totalXp never
\* decreases.
\* ------------------------------------------------------------------------
RECURSIVE XpSum(_, _, _)
XpSum(hist, u, n) ==
  IF n = 0 THEN 0
  ELSE XpSum(hist, u, n - 1) + (IF hist[n].userId = u THEN hist[n].xpEarned ELSE 0)

LedgerBalanced(prog, hist) ==
  \A u \in Accounts : prog[u].totalXp = XpSum(hist, u, Len(hist))

C35_XpLedger ==
  [][/\ LedgerBalanced(progression, history)
     /\ LedgerBalanced(progression', history')
     /\ \A u \in Accounts : progression'[u].totalXp >= progression[u].totalXp]_vars

\* A user has a cleared record that paid XP and a cancelled record that
\* paid none, and has read the progression.
C35_Witness ==
  \E u \in Users, i \in 1..Len(history), j \in 1..Len(history) :
    /\ reply.op = "progression.get" /\ reply.user = u
    /\ history[i].userId = u /\ history[j].userId = u
    /\ history[i].finalStatus = "cleared" /\ history[i].xpEarned > 0
    /\ history[j].finalStatus = "cancelled" /\ history[j].xpEarned = 0
    /\ progression[u].totalXp = XpSum(history, u, Len(history))

\* ------------------------------------------------------------------------
\* C36: the progression after a clear is the same whether or not the idle
\* check ran, once or several times, on any days between the previous clear
\* and this one.
\* ------------------------------------------------------------------------
DaysSinceLastClear(p) ==
  IF p.lastClearedDate = <<>> THEN 0..now ELSE p.lastClearedDate[1]..now

ClearToday(p, df) == updateUserProgression(p, calculateXpReward(df), TRUE, now)

C36_DecayInvisibleAfterClear ==
  \A u \in Users, df \in {"1", "2", "3"} :
    LET p == progression[u]
    IN \A d1 \in DaysSinceLastClear(p) : \A d2 \in d1..now :
         /\ ClearToday(resetStreakIfNeeded(p, d1), df) = ClearToday(p, df)
         /\ ClearToday(resetStreakIfNeeded(resetStreakIfNeeded(p, d1), d2), df)
              = ClearToday(p, df)

\* A streak of one whose last clear is two days old, not yet looked at by
\* the idle check: the check would zero it today, a clear restarts it at 1.
C36_Witness ==
  \E u \in Users :
    /\ progression[u].lastClearedDate = <<now - 2>>
    /\ progression[u].currentStreak = 1
    /\ resetStreakIfNeeded(progression[u], now).currentStreak = 0
    /\ ClearToday(progression[u], "1").currentStreak = 1

====
